---- MODULE Spec2Model ----
(***************************************************************************)
(* FileAnalyzer (file_analyzer/analyzer.py): three scans of a directory    *)
(* tree and the JSON report built from them.                               *)
(*                                                                         *)
(* A file name is a sequence of one-character strings, a path is a         *)
(* sequence of names (os.path.join appends a component).  The filesystem   *)
(* is a tree of directory nodes; the order of a node's files and dirs is   *)
(* the order in which os.scandir lists them.                               *)
(***************************************************************************)
EXTENDS Integers, Sequences, FiniteSets, TLC

VARIABLES
    fs,           \* the filesystem below the working directory (a node)
    constructed,  \* a FileAnalyzer object exists
    directory,    \* self.directory of that object (<<>> before construction)
    last          \* the last call: its name, arguments, return value, exception

vars == <<fs, constructed, directory, last>>

----------------------------------------------------------------------------
(* Bounds of the model *)

MaxFiles == 2         \* files of a nested tree
MaxBigFiles == 11     \* files of a wide tree, enough to overflow the top-10 cut
ReportBytes == 300    \* length in bytes of a written report

(* Program constants *)

TopN == 10                  \* large_files[:10]
DefaultMinSizeMb == 10      \* min_size_mb: float = 10.0
MB == 1024 * 1024

TenMB == 10 * MB
TwentyMB == 20 * MB

----------------------------------------------------------------------------
(* Strings *)

\* str.lower() on one character of the alphabet used by the names below
LowerChar(c) ==
    CASE c = "P" -> "p"
      [] c = "Y" -> "y"
      [] c = "G" -> "g"
      [] OTHER -> c

\* mutation of lower: the case of the extension is kept
lowerNoop(s) == s

\* str.lower()
lower(s) == [i \in DOMAIN s |-> LowerChar(s[i])]

\* str.rfind(".") on a name, 0 when there is none (positions count from 1)
RFindDot(p) ==
    LET dots == {i \in DOMAIN p : p[i] = "."}
    IN IF dots = {} THEN 0 ELSE CHOOSE i \in dots : \A j \in dots : j <= i

\* os.path.splitext on a name without separators: the extension starts at the
\* last dot unless only dots precede it
splitext(p) ==
    LET dotIndex == RFindDot(p)
    IN IF dotIndex > 0 /\ \E k \in 1..(dotIndex - 1) : p[k] # "."
       THEN <<SubSeq(p, 1, dotIndex - 1), SubSeq(p, dotIndex, Len(p))>>
       ELSE <<p, <<>>>>

\* os.path.join(root, file)
join(root, file) == Append(root, file)

\* ext in extensions, for a list
InList(x, l) == \E i \in DOMAIN l : l[i] = x

----------------------------------------------------------------------------
(* The filesystem: node == [files: Seq(file), dirs: Seq([name, node])],     *)
(* file == [name, size, ok]; ok = FALSE is a file whose stat fails          *)

EmptyNode == [files |-> <<>>, dirs |-> <<>>]

FileIndex(node, name) ==
    LET s == {i \in DOMAIN node.files : node.files[i].name = name}
    IN IF s = {} THEN 0 ELSE CHOOSE i \in s : TRUE

DirIndex(node, name) ==
    LET s == {i \in DOMAIN node.dirs : node.dirs[i].name = name}
    IN IF s = {} THEN 0 ELSE CHOOSE i \in s : TRUE

\* the directory node at path, as [found, node]
RECURSIVE NodeAt(_, _)
NodeAt(node, path) ==
    IF path = <<>> THEN [found |-> TRUE, node |-> node]
    ELSE LET i == DirIndex(node, Head(path))
         IN IF i = 0 THEN [found |-> FALSE, node |-> EmptyNode]
            ELSE NodeAt(node.dirs[i].node, Tail(path))

\* the file entry at path, as [found, file]
FileAt(fsys, path) ==
    LET none == [found |-> FALSE, file |-> [name |-> <<>>, size |-> 0, ok |-> FALSE]]
    IN IF path = <<>> THEN none
       ELSE LET d == NodeAt(fsys, SubSeq(path, 1, Len(path) - 1))
                i == IF d.found THEN FileIndex(d.node, path[Len(path)]) ELSE 0
            IN IF i = 0 THEN none ELSE [found |-> TRUE, file |-> d.node.files[i]]

\* os.path.isdir
isdir(fsys, path) == NodeAt(fsys, path).found

\* os.path.exists: os.stat succeeds
exists(fsys, path) ==
    isdir(fsys, path) \/ (FileAt(fsys, path).found /\ FileAt(fsys, path).file.ok)

\* mutation of getsize: a failing stat goes unnoticed
getsizeNoError(fsys, path) ==
    [err |-> FALSE, size |-> FileAt(fsys, path).file.size]

\* os.path.getsize: os.stat(path).st_size, OSError when the stat fails
getsize(fsys, path) ==
    LET f == FileAt(fsys, path)
    IN IF f.found /\ f.file.ok THEN [err |-> FALSE, size |-> f.file.size]
       ELSE [err |-> TRUE, size |-> 0]

\* os.walk of the tree below node, top-down: one triple per directory
RECURSIVE Walk(_, _)
RECURSIVE WalkDirs(_, _, _)
Walk(node, top) ==
    <<[root |-> top,
       dirs |-> [i \in DOMAIN node.dirs |-> node.dirs[i].name],
       files |-> [i \in DOMAIN node.files |-> node.files[i].name]]>>
    \o WalkDirs(node, top, 1)
WalkDirs(node, top, i) ==
    IF i > Len(node.dirs) THEN <<>>
    ELSE Walk(node.dirs[i].node, join(top, node.dirs[i].name)) \o WalkDirs(node, top, i + 1)

\* os.walk(top): a top that cannot be listed yields nothing (onerror is None)
os_walk(fsys, top) ==
    IF isdir(fsys, top) THEN Walk(NodeAt(fsys, top).node, top) ELSE <<>>

\* the (root, file) pairs in the order the nested loops visit them
RECURSIVE Visits(_)
Visits(triples) ==
    IF triples = <<>> THEN <<>>
    ELSE [i \in DOMAIN Head(triples).files |->
              [root |-> Head(triples).root, file |-> Head(triples).files[i]]]
         \o Visits(Tail(triples))

----------------------------------------------------------------------------
(* Python values *)

\* Optional[List[str]]
None == [none |-> TRUE, list |-> <<>>]
Some(l) == [none |-> FALSE, list |-> l]

\* a dict is a function on the keys inserted so far
EmptyDict == <<>>

\* defaultdict(list): d[k].append(v)
DictAppend(d, k, v) ==
    IF k \in DOMAIN d THEN [d EXCEPT ![k] = Append(@, v)]
    ELSE [x \in DOMAIN d \cup {k} |-> IF x = k THEN <<v>> ELSE d[x]]

\* defaultdict(int): d[k] += 1
DictInc(d, k) ==
    IF k \in DOMAIN d THEN [d EXCEPT ![k] = @ + 1]
    ELSE [x \in DOMAIN d \cup {k} |-> IF x = k THEN 1 ELSE d[x]]

\* round(size / (1024 * 1024), 2), in hundredths of a MB.  The division by 2^20
\* is exact in binary floating point and round() rounds the exact value half
\* to even.
round2mb(size) ==
    LET q == size \div MB
        r == size % MB
        h == (r * 100) \div MB
        rest == (r * 100) % MB
        up == 2 * rest > MB \/ (2 * rest = MB /\ h % 2 = 1)
    IN q * 100 + h + (IF up THEN 1 ELSE 0)

----------------------------------------------------------------------------
(* get_files_by_extension *)

\* mutation of ExtStep: files_by_ext[ext] = [file_path] instead of append
ExtStepOverwrite(files_by_ext, root, file, extensions) ==
    LET file_path == join(root, file)
        ext == lower(splitext(file)[2])
    IN IF extensions.none \/ InList(ext, extensions.list)
       THEN [x \in DOMAIN files_by_ext \cup {ext} |->
                IF x = ext THEN <<file_path>> ELSE files_by_ext[x]]
       ELSE files_by_ext

\* the body of the inner loop
ExtStep(files_by_ext, root, file, extensions) ==
    LET file_path == join(root, file)
        ext == lower(splitext(file)[2])
    IN IF extensions.none \/ InList(ext, extensions.list)
       THEN DictAppend(files_by_ext, ext, file_path)
       ELSE files_by_ext

RECURSIVE ExtLoop(_, _, _)
ExtLoop(files_by_ext, visits, extensions) ==
    IF visits = <<>> THEN files_by_ext
    ELSE ExtLoop(ExtStep(files_by_ext, Head(visits).root, Head(visits).file, extensions),
                 Tail(visits), extensions)

get_files_by_extension(fsys, dir, extensions) ==
    ExtLoop(EmptyDict, Visits(os_walk(fsys, dir)), extensions)

----------------------------------------------------------------------------
(* get_file_stats *)

\* mutation of StatsStep: total_files is incremented before the size is read
StatsStepCountFirst(fsys, acc, root, file) ==
    LET file_path == join(root, file)
        gs == getsize(fsys, file_path)
        counted == [acc EXCEPT !.total_files = @ + 1]
    IN IF gs.err THEN counted
       ELSE [total_files |-> counted.total_files,
             total_size |-> acc.total_size + gs.size,
             extensions_count |-> DictInc(acc.extensions_count, lower(splitext(file)[2]))]

\* the body of the inner loop: try ... except OSError: continue
StatsStep(fsys, acc, root, file) ==
    LET file_path == join(root, file)
        gs == getsize(fsys, file_path)
    IN IF gs.err THEN acc
       ELSE [total_files |-> acc.total_files + 1,
             total_size |-> acc.total_size + gs.size,
             extensions_count |-> DictInc(acc.extensions_count, lower(splitext(file)[2]))]

RECURSIVE StatsLoop(_, _, _)
StatsLoop(fsys, acc, visits) ==
    IF visits = <<>> THEN acc
    ELSE StatsLoop(fsys, StatsStep(fsys, acc, Head(visits).root, Head(visits).file),
                   Tail(visits))

get_file_stats(fsys, dir) ==
    LET acc == StatsLoop(fsys,
                         [total_files |-> 0, total_size |-> 0, extensions_count |-> EmptyDict],
                         Visits(os_walk(fsys, dir)))
    IN [total_files |-> acc.total_files,
        total_size_bytes |-> acc.total_size,
        total_size_mb |-> round2mb(acc.total_size),
        extensions_count |-> acc.extensions_count]

----------------------------------------------------------------------------
(* find_large_files; min_size_mb is the rational num/den *)

\* mutation of AtLeast: > instead of >=
AtLeastStrict(file_size, min_size_mb) ==
    file_size * min_size_mb.den > min_size_mb.num * 1024 * 1024

\* file_size >= min_size_mb * 1024 * 1024
AtLeast(file_size, min_size_mb) ==
    file_size * min_size_mb.den >= min_size_mb.num * 1024 * 1024

\* the body of the inner loop
LargeStep(fsys, large_files, root, file, min_size_mb) ==
    LET file_path == join(root, file)
        gs == getsize(fsys, file_path)
    IN IF gs.err THEN large_files
       ELSE IF AtLeast(gs.size, min_size_mb)
            THEN Append(large_files, [path |-> file_path,
                                      size_bytes |-> gs.size,
                                      size_mb |-> round2mb(gs.size)])
            ELSE large_files

RECURSIVE LargeLoop(_, _, _, _)
LargeLoop(fsys, large_files, visits, min_size_mb) ==
    IF visits = <<>> THEN large_files
    ELSE LargeLoop(fsys,
                   LargeStep(fsys, large_files, Head(visits).root, Head(visits).file, min_size_mb),
                   Tail(visits), min_size_mb)

\* mutation of InsertDesc: x goes in front of the elements of equal key, as in
\* an ascending sort that is reversed afterwards
InsertDescBefore(sorted, x) ==
    LET before == {i \in DOMAIN sorted : sorted[i].size_bytes > x.size_bytes}
        n == Cardinality(before)
    IN SubSeq(sorted, 1, n) \o <<x>> \o SubSeq(sorted, n + 1, Len(sorted))

\* one insertion of a stable descending sort: x goes behind every element whose
\* key is not smaller
InsertDesc(sorted, x) ==
    LET before == {i \in DOMAIN sorted : sorted[i].size_bytes >= x.size_bytes}
        n == Cardinality(before)
    IN SubSeq(sorted, 1, n) \o <<x>> \o SubSeq(sorted, n + 1, Len(sorted))

\* sorted(large_files, key=lambda x: x['size_bytes'], reverse=True): stable,
\* equal keys keep their order
RECURSIVE SortDesc(_, _)
SortDesc(sorted, rest) ==
    IF rest = <<>> THEN sorted
    ELSE SortDesc(InsertDesc(sorted, Head(rest)), Tail(rest))

find_large_files(fsys, dir, min_size_mb) ==
    SortDesc(<<>>, LargeLoop(fsys, <<>>, Visits(os_walk(fsys, dir)), min_size_mb))

----------------------------------------------------------------------------
(* generate_report *)

\* the node with the file at position i replaced, or a new file put at slot
PutFile(node, i, slot, f) ==
    IF i > 0 THEN [node EXCEPT !.files[i] = f]
    ELSE [node EXCEPT !.files = SubSeq(@, 1, slot - 1) \o <<f>> \o SubSeq(@, slot, Len(@))]

\* fsys with the directory at path replaced by node
RECURSIVE SetNode(_, _, _)
SetNode(fsys, path, node) ==
    IF path = <<>> THEN node
    ELSE LET i == DirIndex(fsys, Head(path))
         IN [fsys EXCEPT !.dirs[i].node = SetNode(@, Tail(path), node)]

\* with open(path, 'w') as f: json.dump(..., f): [err, fs].  A new entry
\* appears at position slot of its directory's listing (first or last slot);
\* size is the length of the document in bytes.  No operation reads a file's
\* content, so the filesystem keeps only its size.
write_file(fsys, path, size, slot) ==
    LET parent == SubSeq(path, 1, Len(path) - 1)
        name == path[Len(path)]
        d == NodeAt(fsys, parent)
        i == FileIndex(d.node, name)
        f == [name |-> name, size |-> size, ok |-> TRUE]
        at == IF slot = "first" THEN 1 ELSE Len(d.node.files) + 1
    IN IF ~d.found THEN [err |-> "OSError", fs |-> fsys]
       ELSE IF DirIndex(d.node, name) > 0 THEN [err |-> "OSError", fs |-> fsys]
       ELSE IF i > 0 /\ ~d.node.files[i].ok THEN [err |-> "OSError", fs |-> fsys]
       ELSE [err |-> "none", fs |-> SetNode(fsys, parent, PutFile(d.node, i, at, f))]

\* mutation of FirstTen: large_files[:11]
FirstElevenOf(large_files) ==
    SubSeq(large_files, 1, IF Len(large_files) < TopN + 1 THEN Len(large_files) ELSE TopN + 1)

\* large_files[:10]
FirstTen(large_files) ==
    SubSeq(large_files, 1, IF Len(large_files) < TopN THEN Len(large_files) ELSE TopN)

\* mutation of OutputPath: the report goes to the working directory
OutputPathInCwd(dir, output_file) == <<output_file>>

\* os.path.join(self.directory, output_file)
OutputPath(dir, output_file) == join(dir, output_file)

\* the report dict assembled from the three scans of fsys
BuildReport(fsys, dir) ==
    LET stats == get_file_stats(fsys, dir)
        files_by_ext == get_files_by_extension(fsys, dir, None)
        large_files == find_large_files(fsys, dir, [num |-> DefaultMinSizeMb, den |-> 1])
    IN [directory |-> dir,
        statistics |-> stats,
        files_by_extension |-> files_by_ext,
        large_files |-> FirstTen(large_files)]

\* mutation of generate_report: the file is opened before the scans run
GenerateReportOpenFirst(fsys, dir, output_file, size, slot) ==
    LET output_path == OutputPath(dir, output_file)
        opened == write_file(fsys, output_path, 0, slot)
        report == BuildReport(opened.fs, dir)
        w == write_file(opened.fs, output_path, size, slot)
    IN [err |-> w.err, fs |-> w.fs, report |-> report, value |-> output_path]

\* generate_report: the scans, then the write; [err, fs, report, value]
generate_report(fsys, dir, output_file, size, slot) ==
    LET report == BuildReport(fsys, dir)
        output_path == OutputPath(dir, output_file)
        w == write_file(fsys, output_path, size, slot)
    IN [err |-> w.err, fs |-> w.fs, report |-> report, value |-> output_path]

----------------------------------------------------------------------------
(* __init__ *)

\* mutation of InitError: the isdir check is missing
InitErrorNoDirCheck(fsys, path) ==
    IF ~exists(fsys, path) THEN "ValueError: does not exist" ELSE "none"

\* the exception __init__ raises for path, "none" when it returns
InitError(fsys, path) ==
    IF ~exists(fsys, path) THEN "ValueError: does not exist"
    ELSE IF ~isdir(fsys, path) THEN "ValueError: is not a directory"
    ELSE "none"

\* the working directory without the directory at path (removed from outside)
RECURSIVE RemoveDir(_, _)
RemoveDir(fsys, path) ==
    LET i == DirIndex(fsys, Head(path))
    IN IF Len(path) = 1
       THEN [fsys EXCEPT !.dirs = SubSeq(@, 1, i - 1) \o SubSeq(@, i + 1, Len(@))]
       ELSE [fsys EXCEPT !.dirs[i].node = RemoveDir(@, Tail(path))]

----------------------------------------------------------------------------
(* The trees the analyser is run on *)

TopName == <<"t", "o", "p">>
Top == <<TopName>>
Missing == <<<<"n", "o", "p", "e">>>>
SubName == <<"s">>
SubSubName == <<"t">>

PyLower == [name |-> <<"a", ".", "p", "y">>, size |-> TenMB, ok |-> TRUE]
PyUpper == [name |-> <<"b", ".", "P", "Y">>, size |-> TenMB, ok |-> TRUE]
Hidden == [name |-> <<".", "e">>, size |-> TwentyMB, ok |-> TRUE]
Denied == [name |-> <<"d", ".", "t", ".", "G">>, size |-> TwentyMB, ok |-> FALSE]

Catalog == {PyLower, PyUpper, Hidden, Denied}

\* sequences of at most n different files of the catalog
FileLists(n) ==
    {l \in UNION {[1..k -> Catalog] : k \in 0..n} :
        \A i, j \in DOMAIN l : i # j => l[i] # l[j]}

\* a nested tree: the files l[1..a] in the root, l[a+1..b] in the directory s
\* and the rest in s/t
NestedTree(l, a, b) ==
    [files |-> SubSeq(l, 1, a),
     dirs |-> <<[name |-> SubName,
                 node |-> [files |-> SubSeq(l, a + 1, b),
                           dirs |-> <<[name |-> SubSubName,
                                       node |-> [files |-> SubSeq(l, b + 1, Len(l)),
                                                 dirs |-> <<>>]]>>]]>>]

NestedTreesOf(l) == UNION {{NestedTree(l, a, b) : b \in a..Len(l)} : a \in 0..Len(l)}

NestedTrees == UNION {NestedTreesOf(l) : l \in FileLists(MaxFiles)}

Letters == <<"h", "i", "j", "k", "m", "n", "o", "q", "r", "u", "v", "w", "x", "z">>

\* a wide tree: MaxBigFiles files of 10 MB in the root, but 20 MB at position
\* hi and one byte less than 10 MB at position lo, and an empty directory s
WideTree(hi, lo) ==
    [files |-> [i \in 1..MaxBigFiles |->
                    [name |-> <<Letters[i], ".", "l">>,
                     size |-> IF i = hi THEN TwentyMB ELSE IF i = lo THEN TenMB - 1 ELSE TenMB,
                     ok |-> TRUE]],
     dirs |-> <<[name |-> SubName, node |-> EmptyNode]>>]

\* the largest file first or last; eleven files over the threshold, or ten
WideTrees == {WideTree(hi, lo) : hi \in {1, MaxBigFiles}, lo \in {0, 2}}

\* the arguments the operations are called with
CtorPaths == {Top, Missing, join(Top, PyLower.name), join(Top, Denied.name)}
Filters == {None, Some(<<<<".", "p", "y">>>>), Some(<<<<>>, <<".", "P", "Y">>, <<".", "g">>>>)}
MinSizes == {[num |-> 0, den |-> 1], [num |-> 1, den |-> 2], [num |-> DefaultMinSizeMb, den |-> 1]}
OutputNames == {<<"r", ".", "j">>, SubName}
Slots == {"first", "last"}

----------------------------------------------------------------------------
(* The state machine *)

Init ==
    /\ \E tree \in NestedTrees \cup WideTrees :
          fs = [files |-> <<>>, dirs |-> <<[name |-> TopName, node |-> tree]>>]
    /\ constructed = FALSE
    /\ directory = <<>>
    /\ last = [op |-> "none"]

\* FileAnalyzer(path)
Construct(path) ==
    /\ ~constructed
    /\ LET err == InitError(fs, path)
       IN /\ last' = [op |-> "__init__", arg |-> path, err |-> err]
          /\ constructed' = (err = "none")
          /\ directory' = IF err = "none" THEN path ELSE directory
    /\ UNCHANGED fs

GetFilesByExtension(extensions) ==
    /\ constructed
    /\ last' = [op |-> "get_files_by_extension", arg |-> extensions, err |-> "none",
                value |-> get_files_by_extension(fs, directory, extensions)]
    /\ UNCHANGED <<fs, constructed, directory>>

GetFileStats ==
    /\ constructed
    /\ last' = [op |-> "get_file_stats", err |-> "none",
                value |-> get_file_stats(fs, directory)]
    /\ UNCHANGED <<fs, constructed, directory>>

FindLargeFiles(min_size_mb) ==
    /\ constructed
    /\ last' = [op |-> "find_large_files", arg |-> min_size_mb, err |-> "none",
                value |-> find_large_files(fs, directory, min_size_mb)]
    /\ UNCHANGED <<fs, constructed, directory>>

GenerateReport(output_file, slot) ==
    /\ constructed
    /\ LET r == generate_report(fs, directory, output_file, ReportBytes, slot)
       IN /\ fs' = r.fs
          /\ last' = [op |-> "generate_report", arg |-> output_file, err |-> r.err,
                      value |-> r.value, report |-> r.report,
                      created |-> (r.err = "none" /\ ~FileAt(fs, r.value).found)]
    /\ UNCHANGED <<constructed, directory>>

\* the analysed directory is removed from outside while the analyser lives
RemoveRoot ==
    /\ constructed
    /\ isdir(fs, directory)
    /\ fs' = RemoveDir(fs, directory)
    /\ last' = [op |-> "rmtree"]
    /\ UNCHANGED <<constructed, directory>>

Next ==
    \/ \E path \in CtorPaths : Construct(path)
    \/ \E extensions \in Filters : GetFilesByExtension(extensions)
    \/ GetFileStats
    \/ \E min_size_mb \in MinSizes : FindLargeFiles(min_size_mb)
    \/ \E output_file \in OutputNames, slot \in Slots : GenerateReport(output_file, slot)
    \/ RemoveRoot

Spec == Init /\ [][Next]_vars

----------------------------------------------------------------------------
(* What the properties are stated with: the tree as a set, independent of   *)
(* the traversal, and the expected extension key of every name in use       *)

Range(seq) == {seq[i] : i \in DOMAIN seq}

\* every file below node, with its path
RECURSIVE FilesUnder(_, _)
FilesUnder(node, path) ==
    {[path |-> Append(path, node.files[i].name), file |-> node.files[i]] : i \in DOMAIN node.files}
    \cup UNION {FilesUnder(node.dirs[i].node, Append(path, node.dirs[i].name)) : i \in DOMAIN node.dirs}

\* every file below the analysed directory, at any depth
Under == IF NodeAt(fs, directory).found THEN FilesUnder(NodeAt(fs, directory).node, directory) ELSE {}

Accessible == {e \in Under : e.file.ok}
Inaccessible == {e \in Under : ~e.file.ok}

\* the lower-cased extension with its dot, or the empty string
ExpectedKey(name) ==
    CASE name = <<"a", ".", "p", "y">> -> <<".", "p", "y">>
      [] name = <<"b", ".", "P", "Y">> -> <<".", "p", "y">>
      [] name = <<".", "e">> -> <<>>
      [] name = <<"d", ".", "t", ".", "G">> -> <<".", "g">>
      [] name = <<"r", ".", "j">> -> <<".", "j">>
      [] name = <<"s">> -> <<>>
      [] Len(name) = 3 /\ name[2] = "." /\ name[3] = "l" -> <<".", "l">>

RECURSIVE SumOfSizes(_)
SumOfSizes(entries) ==
    IF entries = {} THEN 0
    ELSE LET e == CHOOSE x \in entries : TRUE
         IN e.file.size + SumOfSizes(entries \ {e})

RECURSIVE SumOfLens(_, _)
SumOfLens(d, keys) ==
    IF keys = {} THEN 0
    ELSE LET k == CHOOSE x \in keys : TRUE
         IN Len(d[k]) + SumOfLens(d, keys \ {k})

\* every path listed in a files_by_extension dict
Listed(d) == UNION {Range(d[k]) : k \in DOMAIN d}

\* the position at which the traversal meets path
Encounter(path) ==
    LET v == Visits(os_walk(fs, directory))
    IN CHOOSE i \in DOMAIN v : Append(v[i].root, v[i].file) = path

\* the tree without the files whose stat fails
IsOk(f) == f.ok
RECURSIVE Purged(_)
Purged(node) ==
    [files |-> SelectSeq(node.files, IsOk),
     dirs |-> [i \in DOMAIN node.dirs |->
                  [name |-> node.dirs[i].name, node |-> Purged(node.dirs[i].node)]]]

\* node without the file called name
WithoutFile(node, name) ==
    LET NotIt(f) == f.name # name
    IN [node EXCEPT !.files = SelectSeq(@, NotIt)]

\* fsys without the file at path, when its directory exists
Except(fsys, path) ==
    LET parent == SubSeq(path, 1, Len(path) - 1)
    IN IF NodeAt(fsys, parent).found
       THEN SetNode(fsys, parent, WithoutFile(NodeAt(fsys, parent).node, path[Len(path)]))
       ELSE fsys

Scans == {"get_file_stats", "get_files_by_extension", "find_large_files"}
ValueErrors == {"ValueError: does not exist", "ValueError: is not a directory"}
DefaultMinSize == [num |-> DefaultMinSizeMb, den |-> 1]

----------------------------------------------------------------------------
(* Properties.  A scan leaves fs alone, so in a state whose last call is a  *)
(* scan, fs is the tree that scan saw.                                      *)

\* C1 as stated: a file whose size cannot be read is excluded from all three
\* scans: get_file_stats and find_large_files return what they return on the
\* tree without such files, and no path list of get_files_by_extension holds
\* the path of such a file.
C1_ExcludedFromAllScans ==
    /\ last.op = "get_file_stats" =>
          last.value = get_file_stats(Purged(fs), directory)
    /\ last.op = "find_large_files" =>
          last.value = find_large_files(Purged(fs), directory, last.arg)
    /\ last.op = "get_files_by_extension" =>
          \A e \in Inaccessible : e.path \notin Listed(last.value)

\* C1 amended: a file whose size cannot be read is excluded from get_file_stats
\* and find_large_files, but get_files_by_extension, which reads no size, lists
\* it like any other file whenever its key passes the filter.
C1_ExcludedFromSizeScansOnly ==
    /\ last.op = "get_file_stats" =>
          last.value = get_file_stats(Purged(fs), directory)
    /\ last.op = "find_large_files" =>
          last.value = find_large_files(Purged(fs), directory, last.arg)
    /\ last.op = "get_files_by_extension" =>
          \A e \in Inaccessible :
              LET key == ExpectedKey(e.file.name)
              IN (last.arg.none \/ InList(key, last.arg.list)) =>
                    key \in DOMAIN last.value /\ e.path \in Range(last.value[key])

\* an unreadable file with readable files around it has been scanned by each of
\* the three methods; here by get_files_by_extension, which lists it
C1_Witness ==
    /\ last.op = "get_files_by_extension"
    /\ last.arg.none
    /\ Inaccessible # {} /\ Accessible # {}
    /\ \E e \in Inaccessible : e.path \in Listed(last.value)

C1_WitnessStats ==
    /\ last.op = "get_file_stats"
    /\ Inaccessible # {}
    /\ last.value.total_files = 1

\* C2: when no file is inaccessible, total_files of get_file_stats equals the
\* summed lengths of the lists of get_files_by_extension() on the same tree;
\* the two scans inside one generate_report agree in the same way.
C2_TotalFilesEqualsListed ==
    (constructed /\ Inaccessible = {}) =>
        /\ last.op = "get_file_stats" =>
              LET d == get_files_by_extension(fs, directory, None)
              IN last.value.total_files = SumOfLens(d, DOMAIN d)
        /\ (last.op = "get_files_by_extension" /\ last.arg.none) =>
              SumOfLens(last.value, DOMAIN last.value) = get_file_stats(fs, directory).total_files
        /\ (last.op = "generate_report" /\ last.err = "none") =>
              last.report.statistics.total_files
                 = SumOfLens(last.report.files_by_extension, DOMAIN last.report.files_by_extension)

\* two files share an extension key and all files are readable
C2_Witness ==
    /\ last.op = "get_file_stats"
    /\ Inaccessible = {}
    /\ last.value.total_files = 2
    /\ DOMAIN last.value.extensions_count = {<<".", "p", "y">>}

\* C3: the result of find_large_files is non-increasing in size_bytes, and
\* entries of equal size_bytes are in the order of the traversal.
C3_SortedDescendingStable ==
    last.op = "find_large_files" =>
        \A i, j \in DOMAIN last.value :
            i < j =>
                /\ last.value[i].size_bytes >= last.value[j].size_bytes
                /\ last.value[i].size_bytes = last.value[j].size_bytes =>
                      Encounter(last.value[i].path) < Encounter(last.value[j].path)

\* the sort had to move a later, larger file in front of two files of equal size
C3_Witness ==
    /\ last.op = "find_large_files"
    /\ Len(last.value) >= 3
    /\ last.value[1].size_bytes > last.value[2].size_bytes
    /\ last.value[2].size_bytes = last.value[3].size_bytes
    /\ Encounter(last.value[1].path) > Encounter(last.value[3].path)

\* C4 as stated: find_large_files(min_size_mb) has one entry for exactly the
\* files under the root of size >= min_size_mb * 1,048,576.
C4_ExactlyFilesAtLeastThreshold ==
    last.op = "find_large_files" =>
        /\ {last.value[i].path : i \in DOMAIN last.value}
              = {e.path : e \in {x \in Under : x.file.size * last.arg.den >= last.arg.num * MB}}
        /\ \A i, j \in DOMAIN last.value : last.value[i].path = last.value[j].path => i = j

\* C4 amended: find_large_files(min_size_mb) has one entry for exactly the files
\* under the root whose size can be read and is >= min_size_mb * 1,048,576, with
\* that size; find_large_files(0) returns every file whose size can be read.
C4_ExactlyReadableFilesAtLeastThreshold ==
    last.op = "find_large_files" =>
        /\ {[path |-> last.value[i].path, size |-> last.value[i].size_bytes] : i \in DOMAIN last.value}
              = {[path |-> e.path, size |-> e.file.size] :
                    e \in {x \in Accessible : x.file.size * last.arg.den >= last.arg.num * MB}}
        /\ \A i, j \in DOMAIN last.value : last.value[i].path = last.value[j].path => i = j
        /\ last.arg.num = 0 => Len(last.value) = Cardinality(Accessible)

\* with the 10 MB threshold, a file of exactly 10 MB is in and a file one byte
\* smaller is out
C4_Witness ==
    /\ last.op = "find_large_files"
    /\ last.arg = DefaultMinSize
    /\ \E e \in Accessible : e.file.size = 10 * MB - 1
    /\ \E i \in DOMAIN last.value : last.value[i].size_bytes = 10 * MB

\* C5: the large_files list of the report is the first min(10, n) entries of
\* find_large_files() with the default threshold on the tree the call found: it
\* has at most 10 entries, and no qualifying file left out is larger than a
\* file kept.
C5_ReportKeepsTenLargest ==
    [][(last'.op = "generate_report" /\ constructed) =>
          LET full == find_large_files(fs, directory, DefaultMinSize)
              kept == last'.report.large_files
              n == IF Len(full) < 10 THEN Len(full) ELSE 10
              qualifying == {e \in Accessible : e.file.size >= 10 * MB}
              keptPaths == {kept[i].path : i \in DOMAIN kept}
          IN /\ Len(kept) <= 10
             /\ kept = SubSeq(full, 1, n)
             /\ keptPaths \subseteq {e.path : e \in qualifying}
             /\ Len(kept) = (IF Cardinality(qualifying) < 10 THEN Cardinality(qualifying) ELSE 10)
             /\ \A e \in qualifying :
                   e.path \notin keptPaths =>
                       \A i \in DOMAIN kept : e.file.size <= kept[i].size_bytes
      ]_vars

\* a report was written for a tree with more than ten files of 10 MB or more:
\* ten are kept and one is left out
C5_Witness ==
    /\ last.op = "generate_report"
    /\ last.err = "none"
    /\ Len(last.report.large_files) = 10
    /\ Cardinality({e \in Accessible : e.file.size >= 10 * MB}) > 10
    /\ last.report.large_files[1].size_bytes > last.report.large_files[2].size_bytes

\* C6: __init__ raises its ValueError exactly when the path does not exist or
\* is not a directory; no later operation raises it; once the root is gone
\* every scan returns its empty result without an error.
C6_InvalidRootOnlyAtConstruction ==
    /\ last.op = "__init__" =>
          /\ (last.err \in ValueErrors) <=> (~exists(fs, last.arg) \/ ~isdir(fs, last.arg))
          /\ (last.err = "none") <=> ~(last.err \in ValueErrors)
          /\ (last.err = "none") => (constructed /\ directory = last.arg)
    /\ last.op \in Scans \cup {"generate_report"} => last.err \notin ValueErrors
    /\ (last.op \in Scans /\ ~isdir(fs, directory)) =>
          /\ last.err = "none"
          /\ last.op = "get_file_stats" =>
                last.value = [total_files |-> 0, total_size_bytes |-> 0,
                              total_size_mb |-> 0, extensions_count |-> <<>>]
          /\ last.op = "get_files_by_extension" => last.value = <<>>
          /\ last.op = "find_large_files" => last.value = <<>>

\* the root held files, was removed after construction, and was then scanned
C6_Witness ==
    /\ constructed
    /\ ~isdir(fs, directory)
    /\ last.op = "get_file_stats"
    /\ last.value.total_files = 0

\* construction was refused for a path that is a readable file
C6_WitnessRefused ==
    /\ last.op = "__init__"
    /\ last.err = "ValueError: is not a directory"
    /\ FileAt(fs, last.arg).found

\* C7: get_file_stats counts exactly the files whose size can be read, wherever
\* the failing files stand in the traversal, and raises nothing.
C7_StatsCountReadableFiles ==
    last.op = "get_file_stats" =>
        /\ last.err = "none"
        /\ last.value.total_files = Cardinality(Accessible)
        /\ last.value.total_size_bytes = SumOfSizes(Accessible)
        /\ DOMAIN last.value.extensions_count = {ExpectedKey(e.file.name) : e \in Accessible}
        /\ \A k \in DOMAIN last.value.extensions_count :
              last.value.extensions_count[k]
                 = Cardinality({e \in Accessible : ExpectedKey(e.file.name) = k})

\* the failing file is met first and the file after it is still counted
C7_Witness ==
    /\ last.op = "get_file_stats"
    /\ last.value.total_files = 1
    /\ \E e \in Inaccessible : Encounter(e.path) = 1
    /\ \E e \in Accessible : Encounter(e.path) = 2

\* C8: with a filter, get_files_by_extension lists exactly the files under the
\* root whose lower-cased extension key is in the filter, each once and under
\* its key; without a filter it lists every file under its key.
C8_FilterKeepsExactlyMatchingFiles ==
    last.op = "get_files_by_extension" =>
        LET wanted == {e \in Under : last.arg.none \/ InList(ExpectedKey(e.file.name), last.arg.list)}
        IN /\ DOMAIN last.value = {ExpectedKey(e.file.name) : e \in wanted}
           /\ \A k \in DOMAIN last.value :
                 /\ Range(last.value[k]) = {e.path : e \in {x \in wanted : ExpectedKey(x.file.name) = k}}
                 /\ Len(last.value[k]) = Cardinality(Range(last.value[k]))
           /\ ~last.arg.none => \A k \in DOMAIN last.value : InList(k, last.arg.list)

\* the filter [".py"] kept b.PY from a directory below the root and dropped
\* another file
C8_Witness ==
    /\ last.op = "get_files_by_extension"
    /\ last.arg = Some(<<<<".", "p", "y">>>>)
    /\ \E e \in Under : e.file.name = <<"b", ".", "P", "Y">> /\ Len(e.path) > 2
                        /\ e.path \in Listed(last.value)
    /\ \E e \in Under : e.path \notin Listed(last.value)

\* C9: the scans change neither the filesystem nor the root; generate_report
\* changes at most the file <root>/<output_file>, which is there afterwards
\* when it raised nothing; the root stays the one given at construction.
C9_OnlyTheReportFileChanges ==
    [][/\ constructed => (constructed' /\ directory' = directory)
       /\ last'.op \in Scans => fs' = fs
       /\ last'.op = "__init__" => fs' = fs
       /\ last'.op = "generate_report" =>
             LET path == Append(directory, last'.arg)
             IN /\ Except(fs', path) = Except(fs, path)
                /\ NodeAt(fs', path).found = NodeAt(fs, path).found
                /\ last'.err = "none" =>
                      (FileAt(fs', path).found /\ FileAt(fs', path).file.ok
                       /\ last'.value = path)
                /\ last'.err # "none" => fs' = fs
      ]_vars

\* a report file was created in the root
C9_Witness ==
    /\ last.op = "generate_report"
    /\ last.created
    /\ FileAt(fs, Append(directory, last.arg)).found

\* C10: a generate_report that creates its file reports a tree without that
\* file; the next get_file_stats counts one file more than that report; and a
\* second generate_report of the same name right after it reports one more.
C10_ReportFileSeenByNextScan ==
    /\ []((last.op = "generate_report" /\ last.created) =>
            /\ last.value \notin Listed(last.report.files_by_extension)
            /\ \A i \in DOMAIN last.report.large_files :
                  last.report.large_files[i].path # last.value
            /\ last.report.statistics.total_files = Cardinality(Accessible) - 1
            /\ get_file_stats(fs, directory).total_files
                  = last.report.statistics.total_files + 1)
    /\ [][(/\ last.op = "generate_report" /\ last.created
           /\ last'.op = "generate_report" /\ last'.arg = last.arg) =>
             /\ last'.err = "none"
             /\ last'.report.statistics.total_files = last.report.statistics.total_files + 1
             /\ last'.value \in Listed(last'.report.files_by_extension)
          ]_vars

\* the second report of the same name: it overwrote the first and lists it
C10_Witness ==
    /\ last.op = "generate_report"
    /\ last.err = "none"
    /\ ~last.created
    /\ last.value \in Listed(last.report.files_by_extension)
    /\ last.report.statistics.total_files = Cardinality(Accessible)
    /\ Cardinality(Accessible) > 1

====
